---- MODULE Spec2Model ----
(***************************************************************************)
(* Model of the two views of the car-price dashboard.                      *)
(*                                                                         *)
(*   src/components/dashboard.tsx  PricePredictionDashboard: the debounced *)
(*       /cars search, the /predict submit and what the view renders.      *)
(*   src/app/model/page.tsx        ModelAnalyticsDashboard: the one-shot   *)
(*       load of /model-stats and /prediction-scatter.                     *)
(*                                                                         *)
(* Every handler continuation (the code between two awaits) is one action: *)
(* the browser runs it to completion and React applies the state updates   *)
(* it makes as one batch.  The backend and the user are the environment:   *)
(* their inputs are drawn from the small sets below.                       *)
(*                                                                         *)
(* A nullable value of the source (number | null, string | null) is a      *)
(* sequence of length at most one: <<>> is null, <<v>> is the value v.     *)
(* The form fields name/year/miles are copied unchanged into the request   *)
(* and into a history entry; a history entry is modelled by its price.     *)
(***************************************************************************)
EXTENDS Integers, Sequences, FiniteSets

\* ------------------------------------------------------------------ bounds

\* How many times the user changes the search field.
MaxSearchChanges == 2
\* How many submits the user makes while searches and the analytics load
\* interleave (Spec, FairSpec).
MaxSubmits == 2
\* How many submits the user makes in a row (HistorySpec): more than the
\* history holds.
MaxHistorySubmits == 7

\* ------------------------------------------------------- program constants

\* slice(-5): the rolling prediction history.
HistorySize == 5

CarsErrorMessage == "Failed to load car models"
ConnectErrorMessage == "Failed to connect to prediction service"
PredictionFailedMessage == "Prediction failed"
AnalyticsErrorMessage == "Failed to load model analytics data"

\* ------------------------------------------------------------- environment

\* navItems: the prediction view is mounted at "/", the analytics view at
\* "/model".
Routes == {"/", "/model"}

\* What the user types into the search field.
SearchTerms == {"", "a", "ab"}

\* The backend's answer to GET /cars?search=term.
CarsMatching(term) ==
    CASE term = ""   -> <<"abarth", "audi", "bmw">>
      [] term = "a"  -> <<"abarth", "audi">>
      [] term = "ab" -> <<"abarth">>

\* predicted_price values of a /predict response.
Prices == {0, 950, 15500}

\* The optional error field of a /predict response.
BackendErrors == {<<>>, <<"">>, <<"Unknown car model">>}

\* The bodies of /model-stats and of /prediction-scatter; "malformed" makes
\* response.json() reject.
StatsBodies == {"malformed", "stats-1", "stats-2"}
ScatterBodies == {"malformed", "scatter-1", "scatter-2"}

\* The bodies a resolved /predict fetch can carry; "malformed" makes
\* response.json() reject.
PredictBodies ==
    {[kind |-> "malformed", success |-> FALSE, predicted_price |-> 0, error |-> <<>>]}
    \cup {[kind |-> "json", success |-> TRUE, predicted_price |-> p, error |-> <<>>] :
            p \in Prices}
    \cup {[kind |-> "json", success |-> FALSE, predicted_price |-> 0, error |-> e] :
            e \in BackendErrors}

\* ---------------------------------------------------------------- helpers

Null == <<>>
Some(v) == <<v>>

\* JavaScript truthiness of a nullable number and of a nullable string.
TruthyNumber(n) == n # Null /\ n[1] # 0
TruthyString(s) == s # Null /\ s[1] # ""

\* a || b on nullable strings.
OrElse(a, b) == IF TruthyString(a) THEN a ELSE b

\* seq.slice(-n)
SliceLast(seq, n) ==
    IF Len(seq) <= n THEN seq ELSE SubSeq(seq, Len(seq) - n + 1, Len(seq))

DigitChars == <<"0", "1", "2", "3", "4", "5", "6", "7", "8", "9">>

RECURSIVE DecimalDigits(_)
DecimalDigits(n) ==
    IF n < 10 THEN <<DigitChars[n + 1]>>
    ELSE Append(DecimalDigits(n \div 10), DigitChars[(n % 10) + 1])

RECURSIVE GroupThousands(_)
GroupThousands(ds) ==
    IF Len(ds) <= 3 THEN ds
    ELSE GroupThousands(SubSeq(ds, 1, Len(ds) - 3))
         \o <<",">> \o SubSeq(ds, Len(ds) - 2, Len(ds))

\* Number.prototype.toLocaleString() of a non-negative integer (en-US).
ToLocaleString(n) == GroupThousands(DecimalDigits(n))

\* The number a reader takes from a text of digits and separators.
RECURSIVE ReadNumber(_)
ReadNumber(text) ==
    IF text = <<>> THEN 0
    ELSE LET c == text[Len(text)]
             rest == SubSeq(text, 1, Len(text) - 1)
         IN IF c = "," THEN ReadNumber(rest)
            ELSE 10 * ReadNumber(rest)
                 + (CHOOSE d \in 0..9 : DigitChars[d + 1] = c)

\* ------------------------------------------------------------------ state

VARIABLES
    \* the route that was opened: one run is the life of the view mounted there
    page,
    \* PricePredictionDashboard: useState
    searchTerm, availableCars, isSearching, prediction, loading, error,
    predictions,
    \* pending setTimeout callbacks of the search effect: [id, term]
    timers,
    \* how many times the search effect has run
    effectRuns,
    \* /cars requests whose fetchCars has not finished: [id, term]
    carsInFlight,
    \* /predict requests whose handleSubmit has not finished:
    \* [id, status] with status pending, resolved or rejected
    predictInFlight,
    \* how many submits were made
    submits,
    \* ModelAnalyticsDashboard: useState
    stats, scatterData, analyticsLoading, analyticsError,
    \* the two fetches of fetchData (none, pending, resolved or rejected),
    \* its position, its local statsData and how often the effect has run
    statsFetch, scatterFetch, analyticsPc, statsData, analyticsEffectRuns,
    \* history (observation only, read by no action)
    lastEvent,        \* the handler continuation that ran last in the prediction view
    successLog,       \* predicted_price of every success=true response processed, in order
    submitError,      \* the message the last submit set, Null once the next submit starts
    carsIssued,       \* number of GET /cars requests issued
    carsCompleted,    \* number of fetchCars calls that ran to their end
    issuedSinceChange,\* GET /cars requests issued since searchTerm last changed
    lastIssuedTerm,   \* search term of the GET /cars request issued last
    lastCars          \* [term, ok] of the /cars response processed last

predictionVars ==
    <<searchTerm, availableCars, isSearching, prediction, loading, error,
      predictions, timers, effectRuns, carsInFlight, predictInFlight, submits,
      lastEvent, successLog, submitError, carsIssued, carsCompleted,
      issuedSinceChange, lastIssuedTerm, lastCars>>

searchOnlyVars ==
    <<searchTerm, availableCars, isSearching, timers, effectRuns, carsInFlight,
      carsIssued, carsCompleted, issuedSinceChange, lastIssuedTerm, lastCars>>

submitOnlyVars ==
    <<prediction, loading, predictions, predictInFlight, submits, successLog,
      submitError>>

analyticsVars ==
    <<stats, scatterData, analyticsLoading, analyticsError, statsFetch,
      scatterFetch, analyticsPc, statsData, analyticsEffectRuns>>

vars == <<page, predictionVars, analyticsVars>>

\* A step of the view mounted at "/" and a step of the view mounted at
\* "/model": the other component does not exist.
InPredictionView == page = "/" /\ UNCHANGED <<page, analyticsVars>>
InAnalyticsView == page = "/model" /\ UNCHANGED <<page, predictionVars>>

\* ------------------------------------------------------------------- Init

Init ==
    /\ page \in Routes
    /\ searchTerm = ""
    /\ availableCars = <<>>
    /\ isSearching = FALSE
    /\ prediction = Null
    /\ loading = FALSE
    /\ error = Null
    /\ predictions = <<>>
    \* the search effect has run once, on mount, for the empty term
    /\ timers = {[id |-> 1, term |-> ""]}
    /\ effectRuns = 1
    /\ carsInFlight = {}
    /\ predictInFlight = {}
    /\ submits = 0
    /\ stats = Null
    /\ scatterData = Null
    /\ analyticsLoading = TRUE
    /\ analyticsError = Null
    /\ statsFetch = "none"
    /\ scatterFetch = "none"
    /\ analyticsPc = "mounted"
    /\ statsData = Null
    /\ analyticsEffectRuns = 0
    /\ lastEvent = "mount"
    /\ successLog = <<>>
    /\ submitError = Null
    /\ carsIssued = 0
    /\ carsCompleted = 0
    /\ issuedSinceChange = 0
    /\ lastIssuedTerm = ""
    /\ lastCars = Null

\* ------------------------------------------- prediction view: the search

\* SetSearchTerm with the effect's cleanup left out: the previous timer is
\* not cleared.
SetSearchTermNoCleanup(t) ==
    /\ InPredictionView
    /\ t # searchTerm
    /\ effectRuns <= MaxSearchChanges
    /\ searchTerm' = t
    /\ timers' = timers \cup {[id |-> effectRuns + 1, term |-> t]}
    /\ effectRuns' = effectRuns + 1
    /\ issuedSinceChange' = 0
    /\ lastEvent' = "search"
    /\ UNCHANGED <<availableCars, isSearching, carsInFlight, carsIssued,
                   carsCompleted, lastIssuedTerm, lastCars, error>>
    /\ UNCHANGED submitOnlyVars

\* onChange of the search field: setSearchTerm(t).  The re-render runs the
\* cleanup of the previous effect run (clearTimeout of its timer) and then
\* the effect again, which starts a new timer that captures t.
SetSearchTerm(t) ==
    /\ InPredictionView
    /\ t # searchTerm
    /\ effectRuns <= MaxSearchChanges
    /\ searchTerm' = t
    /\ timers' = {tm \in timers : tm.id # effectRuns}
                 \cup {[id |-> effectRuns + 1, term |-> t]}
    /\ effectRuns' = effectRuns + 1
    /\ issuedSinceChange' = 0
    /\ lastEvent' = "search"
    /\ UNCHANGED <<availableCars, isSearching, carsInFlight, carsIssued,
                   carsCompleted, lastIssuedTerm, lastCars, error>>
    /\ UNCHANGED submitOnlyVars

\* The timer expires and calls fetchCars: setIsSearching(true), then the
\* GET /cars request for the term the callback captured.
TimerFires(tm) ==
    /\ InPredictionView
    /\ tm \in timers
    /\ timers' = timers \ {tm}
    /\ isSearching' = TRUE
    /\ carsInFlight' = carsInFlight \cup {tm}
    /\ carsIssued' = carsIssued + 1
    /\ issuedSinceChange' = issuedSinceChange + 1
    /\ lastIssuedTerm' = tm.term
    /\ lastEvent' = "timer"
    /\ UNCHANGED <<searchTerm, availableCars, effectRuns, carsCompleted,
                   lastCars, error>>
    /\ UNCHANGED submitOnlyVars

\* CarsResponse dropping the response of a request whose term is no longer
\* the one in the search field.
CarsResponseIgnoreStale(r) ==
    /\ InPredictionView
    /\ r \in carsInFlight
    /\ carsInFlight' = carsInFlight \ {r}
    /\ availableCars' =
           IF r.term = searchTerm THEN CarsMatching(r.term) ELSE availableCars
    /\ error' = Null
    /\ isSearching' = FALSE
    /\ carsCompleted' = carsCompleted + 1
    /\ lastCars' = Some([term |-> r.term, ok |-> TRUE])
    /\ lastEvent' = "carsOk"
    /\ UNCHANGED <<searchTerm, timers, effectRuns, carsIssued,
                   issuedSinceChange, lastIssuedTerm>>
    /\ UNCHANGED submitOnlyVars

\* fetchCars after both awaits succeeded: the try block and what follows it.
CarsResponse(r) ==
    /\ InPredictionView
    /\ r \in carsInFlight
    /\ carsInFlight' = carsInFlight \ {r}
    /\ availableCars' = CarsMatching(r.term)
    /\ error' = Null
    /\ isSearching' = FALSE
    /\ carsCompleted' = carsCompleted + 1
    /\ lastCars' = Some([term |-> r.term, ok |-> TRUE])
    /\ lastEvent' = "carsOk"
    /\ UNCHANGED <<searchTerm, timers, effectRuns, carsIssued,
                   issuedSinceChange, lastIssuedTerm>>
    /\ UNCHANGED submitOnlyVars

\* CarsFailure with setError left out of the catch block.
CarsFailureSilent(r) ==
    /\ InPredictionView
    /\ r \in carsInFlight
    /\ carsInFlight' = carsInFlight \ {r}
    /\ availableCars' = <<>>
    /\ isSearching' = FALSE
    /\ carsCompleted' = carsCompleted + 1
    /\ lastCars' = Some([term |-> r.term, ok |-> FALSE])
    /\ lastEvent' = "carsFailed"
    /\ UNCHANGED <<searchTerm, timers, effectRuns, carsIssued,
                   issuedSinceChange, lastIssuedTerm, error>>
    /\ UNCHANGED submitOnlyVars

\* fetchCars after the fetch rejected or the body failed to parse: the
\* catch block and what follows it.
CarsFailure(r) ==
    /\ InPredictionView
    /\ r \in carsInFlight
    /\ carsInFlight' = carsInFlight \ {r}
    /\ error' = Some(CarsErrorMessage)
    /\ availableCars' = <<>>
    /\ isSearching' = FALSE
    /\ carsCompleted' = carsCompleted + 1
    /\ lastCars' = Some([term |-> r.term, ok |-> FALSE])
    /\ lastEvent' = "carsFailed"
    /\ UNCHANGED <<searchTerm, timers, effectRuns, carsIssued,
                   issuedSinceChange, lastIssuedTerm>>
    /\ UNCHANGED submitOnlyVars

\* ------------------------------------------- prediction view: the submit

\* SubmitEnabled with the disabled attribute left off the button.
SubmitAlwaysEnabled == TRUE

\* The submit button is disabled while loading is true.
SubmitEnabled == ~loading

\* handleSubmit up to its first await.
Submit(limit) ==
    /\ InPredictionView
    /\ SubmitEnabled
    /\ submits < limit
    /\ submits' = submits + 1
    /\ loading' = TRUE
    /\ error' = Null
    /\ predictInFlight' =
           predictInFlight \cup {[id |-> submits + 1, status |-> "pending"]}
    /\ submitError' = Null
    /\ lastEvent' = "submit"
    /\ UNCHANGED <<prediction, predictions, successLog>>
    /\ UNCHANGED searchOnlyVars

\* The network settles the POST /predict fetch.
PredictFetchSettles(r, outcome) ==
    /\ InPredictionView
    /\ r \in predictInFlight
    /\ r.status = "pending"
    /\ predictInFlight' =
           (predictInFlight \ {r}) \cup {[id |-> r.id, status |-> outcome]}
    /\ lastEvent' = "settled"
    /\ UNCHANGED <<prediction, loading, predictions, submits, successLog,
                   submitError, error>>
    /\ UNCHANGED searchOnlyVars

\* AppendHistory with slice(0, 5) in place of slice(-5).
AppendHistoryKeepFirst(prev, price) ==
    SubSeq(Append(prev, price), 1,
           IF Len(prev) + 1 <= HistorySize THEN Len(prev) + 1 ELSE HistorySize)

\* [...prev, item].slice(-5)
AppendHistory(prev, price) == SliceLast(Append(prev, price), HistorySize)

\* SubmitCatch showing the caught error's own text.
SubmitCatchShowsCause(r) ==
    /\ predictInFlight' = predictInFlight \ {r}
    /\ error' = Some("TypeError: Failed to fetch")
    /\ submitError' = Some("TypeError: Failed to fetch")
    /\ loading' = FALSE
    /\ lastEvent' = "predictFailed"
    /\ UNCHANGED <<prediction, predictions, submits, successLog>>
    /\ UNCHANGED searchOnlyVars

\* The catch block of handleSubmit, then setLoading(false).
SubmitCatch(r) ==
    /\ predictInFlight' = predictInFlight \ {r}
    /\ error' = Some(ConnectErrorMessage)
    /\ submitError' = Some(ConnectErrorMessage)
    /\ loading' = FALSE
    /\ lastEvent' = "predictFailed"
    /\ UNCHANGED <<prediction, predictions, submits, successLog>>
    /\ UNCHANGED searchOnlyVars

\* handleSubmit after a rejected fetch.
PredictRejected(r) ==
    /\ InPredictionView
    /\ r \in predictInFlight
    /\ r.status = "rejected"
    /\ SubmitCatch(r)

\* The if (data.success) branch, then setLoading(false).
SubmitSuccess(r, data) ==
    /\ predictInFlight' = predictInFlight \ {r}
    /\ prediction' = Some(data.predicted_price)
    /\ predictions' = AppendHistory(predictions, data.predicted_price)
    /\ successLog' = Append(successLog, data.predicted_price)
    /\ loading' = FALSE
    /\ lastEvent' = "predictOk"
    /\ UNCHANGED <<submits, submitError, error>>
    /\ UNCHANGED searchOnlyVars

\* The else branch, then setLoading(false).
SubmitRefused(r, data) ==
    /\ predictInFlight' = predictInFlight \ {r}
    /\ error' = OrElse(data.error, Some(PredictionFailedMessage))
    /\ submitError' = OrElse(data.error, Some(PredictionFailedMessage))
    /\ loading' = FALSE
    /\ lastEvent' = "predictRefused"
    /\ UNCHANGED <<prediction, predictions, submits, successLog>>
    /\ UNCHANGED searchOnlyVars

\* handleSubmit after a resolved fetch: await response.json() and the rest.
PredictResponse(r, body) ==
    /\ InPredictionView
    /\ r \in predictInFlight
    /\ r.status = "resolved"
    /\ IF body.kind = "malformed" THEN SubmitCatch(r)
       ELSE IF body.success THEN SubmitSuccess(r, body)
       ELSE SubmitRefused(r, body)

\* ---------------------------------------------------------- what is shown

\* {error && <Alert ...>{error}</Alert>}
BannerShown == TruthyString(error)

\* {isSearching && <p>Loading...</p>}
SearchIndicatorShown == isSearching

\* {prediction && (<div> Predicted Price: ${prediction.toLocaleString()} ...)}:
\* a falsy number is rendered as itself in place of the block.
ResultsCard ==
    IF TruthyNumber(prediction)
    THEN [priceBlock |-> TRUE, price |-> ToLocaleString(prediction[1])]
    ELSE IF prediction # Null
    THEN [priceBlock |-> FALSE, price |-> DecimalDigits(prediction[1])]
    ELSE [priceBlock |-> FALSE, price |-> <<>>]

\* --------------------------------------------------------- analytics view

\* useEffect(..., []): the effect runs after the first render only and calls
\* fetchData, which issues both fetches for Promise.all.
AnalyticsEffectDue == analyticsEffectRuns = 0

AnalyticsEffect ==
    /\ InAnalyticsView
    /\ AnalyticsEffectDue
    /\ analyticsEffectRuns' = analyticsEffectRuns + 1
    /\ statsFetch' = "pending"
    /\ scatterFetch' = "pending"
    /\ analyticsPc' = "awaitAll"
    /\ UNCHANGED <<stats, scatterData, analyticsLoading, analyticsError,
                   statsData>>

\* The network settles the GET /model-stats fetch.
StatsFetchSettles(outcome) ==
    /\ InAnalyticsView
    /\ statsFetch = "pending"
    /\ statsFetch' = outcome
    /\ UNCHANGED <<stats, scatterData, analyticsLoading, analyticsError,
                   scatterFetch, analyticsPc, statsData, analyticsEffectRuns>>

\* The network settles the GET /prediction-scatter fetch.
ScatterFetchSettles(outcome) ==
    /\ InAnalyticsView
    /\ scatterFetch = "pending"
    /\ scatterFetch' = outcome
    /\ UNCHANGED <<stats, scatterData, analyticsLoading, analyticsError,
                   statsFetch, analyticsPc, statsData, analyticsEffectRuns>>

\* catch: setError(...); finally: setLoading(false).
AnalyticsCatch ==
    /\ analyticsError' = Some(AnalyticsErrorMessage)
    /\ analyticsLoading' = FALSE
    /\ analyticsPc' = "done"
    /\ UNCHANGED <<stats, scatterData, statsFetch, scatterFetch, statsData,
                   analyticsEffectRuns>>

\* Promise.all rejects as soon as one of its promises rejects.
AnalyticsAllRejected ==
    /\ InAnalyticsView
    /\ analyticsPc = "awaitAll"
    /\ statsFetch = "rejected" \/ scatterFetch = "rejected"
    /\ AnalyticsCatch

\* Promise.all resolves once both have resolved.
AnalyticsAllResolved ==
    /\ InAnalyticsView
    /\ analyticsPc = "awaitAll"
    /\ statsFetch = "resolved" /\ scatterFetch = "resolved"
    /\ analyticsPc' = "statsJson"
    /\ UNCHANGED <<stats, scatterData, analyticsLoading, analyticsError,
                   statsFetch, scatterFetch, statsData, analyticsEffectRuns>>

\* AnalyticsStatsJson calling setStats as soon as the first body is parsed.
AnalyticsStatsJsonSetsEarly(body) ==
    /\ InAnalyticsView
    /\ analyticsPc = "statsJson"
    /\ IF body = "malformed" THEN AnalyticsCatch
       ELSE /\ statsData' = Some(body)
            /\ stats' = Some(body)
            /\ analyticsPc' = "scatterJson"
            /\ UNCHANGED <<scatterData, analyticsLoading, analyticsError,
                           statsFetch, scatterFetch, analyticsEffectRuns>>

\* const statsData = await statsResponse.json()
AnalyticsStatsJson(body) ==
    /\ InAnalyticsView
    /\ analyticsPc = "statsJson"
    /\ IF body = "malformed" THEN AnalyticsCatch
       ELSE /\ statsData' = Some(body)
            /\ analyticsPc' = "scatterJson"
            /\ UNCHANGED <<stats, scatterData, analyticsLoading,
                           analyticsError, statsFetch, scatterFetch,
                           analyticsEffectRuns>>

\* setStats; setScatterData; setError(null); finally: setLoading(false).
AnalyticsLoaded(body) ==
    /\ stats' = statsData
    /\ scatterData' = Some(body)
    /\ analyticsError' = Null
    /\ analyticsLoading' = FALSE
    /\ analyticsPc' = "done"
    /\ UNCHANGED <<statsFetch, scatterFetch, statsData, analyticsEffectRuns>>

\* const scatterData = await scatterResponse.json(), and the rest.
AnalyticsScatterJson(body) ==
    /\ InAnalyticsView
    /\ analyticsPc = "scatterJson"
    /\ IF body = "malformed" THEN AnalyticsCatch ELSE AnalyticsLoaded(body)

\* if (loading) ...; if (error) ...; if (!stats || !scatterData) ...; charts
AnalyticsScreen ==
    IF analyticsLoading THEN "loading"
    ELSE IF TruthyString(analyticsError) THEN "error"
    ELSE IF stats = Null \/ scatterData = Null THEN "empty"
    ELSE "charts"

\* ------------------------------------------------------- specifications

SearchNext ==
    \/ \E t \in SearchTerms : SetSearchTerm(t)
    \/ \E tm \in timers : TimerFires(tm)
    \/ \E r \in carsInFlight : CarsResponse(r)
    \/ \E r \in carsInFlight : CarsFailure(r)

PredictNetwork ==
    \E r \in predictInFlight : \E o \in {"resolved", "rejected"} :
        PredictFetchSettles(r, o)

PredictHandlers ==
    \/ \E r \in predictInFlight : PredictRejected(r)
    \/ \E r \in predictInFlight : \E b \in PredictBodies : PredictResponse(r, b)

AnalyticsNetwork ==
    \/ \E o \in {"resolved", "rejected"} : StatsFetchSettles(o)
    \/ \E o \in {"resolved", "rejected"} : ScatterFetchSettles(o)

AnalyticsHandlers ==
    \/ AnalyticsEffect
    \/ AnalyticsAllRejected
    \/ AnalyticsAllResolved
    \/ \E b \in StatsBodies : AnalyticsStatsJson(b)
    \/ \E b \in ScatterBodies : AnalyticsScatterJson(b)

HistoryNext ==
    \/ Submit(MaxHistorySubmits)
    \/ PredictNetwork
    \/ PredictHandlers
    \/ AnalyticsNetwork
    \/ AnalyticsHandlers

Next ==
    \/ SearchNext
    \/ Submit(MaxSubmits)
    \/ PredictNetwork
    \/ PredictHandlers
    \/ AnalyticsNetwork
    \/ AnalyticsHandlers

\* Either view, with searches and submits interleaving in the prediction view.
Spec == Init /\ [][Next]_vars

\* Either view, with submits alone in the prediction view: more of them than
\* the history holds.
HistorySpec == Init /\ [][HistoryNext]_vars

\* The event loop runs every continuation that is ready; the network and the
\* user are under no obligation.
Fairness ==
    /\ WF_vars(PredictHandlers)
    /\ WF_vars(AnalyticsHandlers)

FairSpec == Spec /\ Fairness

\* ----------------------------------------------------------------- claims

StaticPredictionErrors ==
    {Some(CarsErrorMessage), Some(ConnectErrorMessage)}

\* The texts a /predict response with success=false can put on display.
RefusalTexts ==
    {Some(PredictionFailedMessage)} \cup {e \in BackendErrors : TruthyString(e)}

SubmitDone == lastEvent \in {"predictOk", "predictRefused", "predictFailed"}

\* C1: the prediction history holds at most 5 entries and is the last
\* min(n, 5) of the n successful /predict results, in the order they were
\* processed; a response with success=false, a rejected fetch and a body
\* that does not parse leave it as it was.
C1_HistoryIsLastFive ==
    /\ [](/\ Len(predictions) <= HistorySize
          /\ predictions = SliceLast(successLog, HistorySize))
    /\ [][lastEvent' \in {"predictRefused", "predictFailed"}
            => predictions' = predictions]_vars

\* C1 witness: more successes than the history holds have been processed,
\* after a failed submit, and the first entries have been dropped.
C1_Witness ==
    /\ Len(successLog) > HistorySize
    /\ submits > Len(successLog)
    /\ Len(predictions) = HistorySize
    /\ predictions # SubSeq(successLog, 1, HistorySize)
    /\ predictions[HistorySize] # predictions[1]

\* C2: once a success=true response has been processed, the results card
\* shows the price block and the price in it reads as that response's
\* predicted_price, whatever the price (0 included).
C2_DisplayedPriceIsPredicted ==
    lastEvent = "predictOk" =>
        /\ ResultsCard.priceBlock
        /\ ReadNumber(ResultsCard.price) = successLog[Len(successLog)]

\* C3: a rejected fetch shows the error banner: in the prediction view after
\* the catch block of fetchCars or of handleSubmit has run, error is set and
\* the banner is rendered; in the analytics view, once fetchData has gone
\* past its Promise.all with one of the two fetches rejected, error is set,
\* loading is false and the error banner is rendered in place of the charts.
C3_RejectionShowsBanner ==
    /\ lastEvent \in {"carsFailed", "predictFailed"} =>
           error # Null /\ BannerShown
    /\ (analyticsPc # "awaitAll"
        /\ (statsFetch = "rejected" \/ scatterFetch = "rejected")) =>
           /\ analyticsError # Null
           /\ ~analyticsLoading
           /\ AnalyticsScreen = "error"

\* C3 witness: /model-stats resolved, /prediction-scatter rejected, and the
\* analytics view shows its error banner.
C3_Witness ==
    /\ statsFetch = "resolved"
    /\ scatterFetch = "rejected"
    /\ analyticsPc = "done"
    /\ AnalyticsScreen = "error"

\* C4 as stated: the error of either view is null or one of the three
\* static messages.
C4_OnlyStaticMessages ==
    /\ error \in {Null} \cup StaticPredictionErrors
    /\ analyticsError \in {Null, Some(AnalyticsErrorMessage)}

\* C4 amended: the error of the prediction view is null, one of the static
\* messages 'Failed to load car models', 'Failed to connect to prediction
\* service' and 'Prediction failed', or the error text of a /predict
\* response with success=false; it becomes non-null only in the catch block
\* of fetchCars, in the catch block of handleSubmit or on a /predict response
\* with success=false, each with its own text.  The error of the analytics
\* view is null or 'Failed to load model analytics data', and is non-null
\* only once fetchData has ended in its catch block, with nothing loaded.
C4_StaticOrRefusalText ==
    /\ [](/\ error \in {Null} \cup StaticPredictionErrors \cup RefusalTexts
          /\ analyticsError \in {Null, Some(AnalyticsErrorMessage)}
          /\ analyticsError # Null =>
                 /\ analyticsPc = "done"
                 /\ stats = Null /\ scatterData = Null)
    /\ [][/\ (error' # error /\ error' # Null) =>
                 lastEvent' \in {"carsFailed", "predictFailed", "predictRefused"}
          /\ lastEvent' = "carsFailed" => error' = Some(CarsErrorMessage)
          /\ lastEvent' = "predictFailed" => error' = Some(ConnectErrorMessage)
          /\ lastEvent' = "predictRefused" => error' \in RefusalTexts
          /\ lastEvent' \notin {"carsFailed", "predictFailed", "predictRefused"}
                 => error' \in {error, Null}]_vars

\* C4 witness: the text of a /predict response with success=false is on
\* display.
C4_Witness ==
    /\ lastEvent = "predictRefused"
    /\ error = Some("Unknown car model")
    /\ BannerShown

\* C5: at most one debounce timer is pending and it holds the current search
\* term; a GET /cars request is issued only by an expiring timer, with the
\* term current at that moment; between two changes of the search term at
\* most one request is issued, and once the timer of the last change has
\* expired exactly one, for that last term.
C5_DebounceOneRequestPerBurst ==
    /\ Cardinality(timers) <= 1
    /\ \A tm \in timers : tm.term = searchTerm /\ tm.id = effectRuns
    /\ carsIssued + Cardinality(timers) <= effectRuns
    /\ issuedSinceChange <= 1
    /\ issuedSinceChange = 0 <=> timers # {}
    /\ issuedSinceChange = 1 => lastIssuedTerm = searchTerm
    /\ \A r \in carsInFlight : r.id <= effectRuns
    /\ lastEvent = "timer" =>
           \E r \in carsInFlight : r.term = searchTerm /\ r.id = effectRuns

\* C5 witness: two changes in a burst ("" -> "a" -> "ab"), then the timer
\* expired: one request in all, for "ab".
C5_Witness ==
    /\ effectRuns = 3
    /\ searchTerm = "ab"
    /\ timers = {}
    /\ carsIssued = 1
    /\ carsInFlight = {[id |-> 3, term |-> "ab"]}

\* C6: no /cars request is cancelled and no response discarded: every request
\* issued is in flight or has been processed, and the list shown is that of
\* the response processed last (empty after a failure), whatever the search
\* field holds by then.
C6_LastArrivalWins ==
    /\ carsIssued = carsCompleted + Cardinality(carsInFlight)
    /\ lastCars # Null =>
           availableCars = IF lastCars[1].ok THEN CarsMatching(lastCars[1].term)
                           ELSE <<>>

\* C6 witness: all requests have completed, the search field holds "ab" and
\* the list shown is the one for the older term "".
C6_Witness ==
    /\ carsInFlight = {}
    /\ timers = {}
    /\ carsCompleted >= 2
    /\ searchTerm = "ab"
    /\ lastCars = Some([term |-> "", ok |-> TRUE])
    /\ availableCars = CarsMatching("")

AnalyticsFetchesSettled ==
    /\ statsFetch \in {"resolved", "rejected"}
    /\ scatterFetch \in {"resolved", "rejected"}

\* C7: the analytics view starts loading, issues its two fetches once and
\* never again; once loading is false it stays false; with loading false
\* either error is set and stats and scatterData are both null, or error is
\* null and both are set; and if both fetches settle, loading becomes false.
C7_AnalyticsOneShot ==
    /\ [](/\ analyticsEffectRuns <= 1
          /\ analyticsEffectRuns = 0 =>
                 analyticsLoading /\ statsFetch = "none" /\ scatterFetch = "none"
          /\ analyticsEffectRuns = 1 =>
                 statsFetch # "none" /\ scatterFetch # "none"
          /\ analyticsLoading <=> analyticsPc # "done"
          /\ ~analyticsLoading =>
                 \/ /\ analyticsError # Null
                    /\ stats = Null /\ scatterData = Null
                 \/ /\ analyticsError = Null
                    /\ stats # Null /\ scatterData # Null
                    /\ stats = statsData)
    /\ [][~analyticsLoading => ~analyticsLoading']_vars
    /\ [][statsFetch # "none" => statsFetch' # "pending" \/ statsFetch = "pending"]_vars
    /\ [][scatterFetch # "none" =>
              scatterFetch' # "pending" \/ scatterFetch = "pending"]_vars
    /\ (page = "/model" /\ AnalyticsFetchesSettled) ~> ~analyticsLoading

\* C7 witness: both bodies parsed, the charts are shown.
C7_Witness ==
    /\ ~analyticsLoading
    /\ analyticsError = Null
    /\ stats = Some("stats-2")
    /\ scatterData = Some("scatter-1")
    /\ AnalyticsScreen = "charts"

\* C8: loading is true exactly while a /predict request is in flight (from
\* the submit until handleSubmit has run to its end), it is false after every
\* outcome, at most one /predict request is in flight, and once the fetch has
\* settled loading becomes false.
C8_LoadingBracketsSubmit ==
    /\ [](/\ loading <=> predictInFlight # {}
          /\ Cardinality(predictInFlight) <= 1
          /\ SubmitDone => ~loading
          /\ lastEvent = "submit" => loading)
    /\ (\E r \in predictInFlight : r.status # "pending") ~> ~loading

\* C8 witness: a second submit is in flight, its fetch has resolved, and the
\* button is disabled.
C8_Witness ==
    /\ submits = 2
    /\ loading
    /\ ~SubmitEnabled
    /\ predictInFlight = {[id |-> 2, status |-> "resolved"]}

\* C9: the error message a failed submit set stays on display until the next
\* submit starts.
C9_SubmitErrorStays ==
    submitError # Null => error = submitError

\* C10: the 'Loading...' indicator of the car list is shown exactly while a
\* /cars request is in flight.
C10_IndicatorTracksRequests ==
    SearchIndicatorShown <=> carsInFlight # {}

====
